---- MODULE Spec2Model ----
(***************************************************************************)
(* Frame lifecycle and swapchain management (engine::renderer) and GPU     *)
(* resource upload (engine::model) of UnnamedVulkanEngine.                 *)
(*                                                                         *)
(* The renderer is a single-threaded state machine.  pc is the position of *)
(* the one thread of control: "idle" between two calls of the public       *)
(* interface, and a line of recreateSwapchain / the tail of beginFrame or  *)
(* endFrame while a call that recreates the swapchain is in progress.      *)
(***************************************************************************)
EXTENDS Integers, Sequences, FiniteSets, TLC

(* ------------------------------ bounds -------------------------------- *)

\* number of presentable images of a swapchain (acquireNextImage yields 0..ImageCount-1)
ImageCount == 2

\* longest vertex sequence a builder is given
MaxVertices == 4

\* longest index sequence a builder is given
MaxIndices == 2

\* most rows (positions, normals and texture coordinates together) a parsed mesh file holds
MaxAttribRows == 3

\* most index triples a parsed mesh file holds
MaxMeshIndices == 3

\* most index triples one shape of a parsed mesh file holds
MaxShapeIndices == 2

(* ------------------------- program constants -------------------------- *)

\* swapchain::MAX_FRAMES_IN_FLIGHT (swapchain.hpp; the spec gives "e.g. 2")
MAX_FRAMES_IN_FLIGHT == 2

\* nullptr / VK_NULL_HANDLE
NULL == 0

\* the handles vkAllocateCommandBuffers hands out: distinct and non-null
CommandBufferHandles == 1..MAX_FRAMES_IN_FLIGHT

\* a command buffer handle that does not belong to the renderer's pool
ForeignHandle == MAX_FRAMES_IN_FLIGHT + 1

\* every value a caller can pass as a VkCommandBuffer
Handles == {NULL} \cup CommandBufferHandles \cup {ForeignHandle}

FrameSlots == 0..(MAX_FRAMES_IN_FLIGHT - 1)

ImageIndices == 0..(ImageCount - 1)

\* VkResult values of acquireNextImage / submitCommandBuffers
VK_SUCCESS == "VK_SUCCESS"

VK_SUBOPTIMAL_KHR == "VK_SUBOPTIMAL_KHR"

VK_ERROR_OUT_OF_DATE_KHR == "VK_ERROR_OUT_OF_DATE_KHR"

VK_ERROR_DEVICE_LOST == "VK_ERROR_DEVICE_LOST"

VkResults == {VK_SUCCESS, VK_SUBOPTIMAL_KHR, VK_ERROR_OUT_OF_DATE_KHR, VK_ERROR_DEVICE_LOST}

\* no VkResult held (the local `result` is out of scope)
NoResult == "none"

\* window extents <<width, height>> the window can report
Extents == {<<0, 0>>, <<800, 0>>, <<0, 600>>, <<800, 600>>, <<1024, 768>>}

\* value of the local `extent` of recreateSwapchain outside that function
NoExtent == <<0, 0>>

ImageFormats == {"B8G8R8A8_SRGB", "B8G8R8A8_UNORM"}

DepthFormats == {"D32_SFLOAT", "D24_UNORM_S8_UINT"}

\* identities of swapchain objects; at most two are alive at once
SwapchainIds == 1..3

\* slot of a swapchain object that does not exist (never constructed or destroyed)
NoSwapchain == [extent |-> NoExtent, imageFormat |-> "none", depthFormat |-> "none", alive |-> FALSE]

\* no render pass instance is being recorded
NoPass == [active |-> FALSE, commandBuffer |-> NULL, swapchain |-> NULL, framebuffer |-> 0, extent |-> NoExtent]

\* ids of the buffers a device hands out (a model creates at most four)
BufferIds == 1..4

\* slot of a buffer the device has not created
NoBuffer == [size |-> 0, usage |-> {}, properties |-> {}, buffer |-> "none", memory |-> "none", mapped |-> FALSE, contents |-> <<>>]

\* sample Vertex values: position, color, normal, uv
VertexSamples == {[position |-> <<0, 0, 0>>, color |-> <<1, 1, 1>>, normal |-> <<0, 0, 1>>, uv |-> <<0, 0>>],
                  [position |-> <<1, 0, 0>>, color |-> <<1, 1, 1>>, normal |-> <<0, 0, 1>>, uv |-> <<1, 0>>]}

\* sample index values
IndexSamples == {0, 1, 2}

\* every sequence over S of length at most n
BoundedSeq(S, n) == UNION {[1..k -> S] : k \in 0..n}

\* terminal positions: assertion failure, exception leaving the renderer,
\* undefined behaviour that stopped the process
Terminal == {"aborted", "thrown", "undefined"}

VARIABLES
    pc,                    \* position of the thread of control
    caller,                \* the public operation in progress: "none", "ctor", "beginFrame", "endFrame"
    windowExtent,          \* window: current drawable extent (window::getExtent)
    windowResized,         \* window: the resize-request flag (window::wasWindowResized)
    extent,                \* recreateSwapchain: local `extent`
    swapchainInstance,     \* renderer::swapchainInstance (id or NULL)
    oldSwapchainInstance,  \* recreateSwapchain: local shared_ptr oldSwapchainInstance (id or NULL)
    swapchains,            \* the swapchain objects, by id
    commandBuffers,        \* renderer::commandBuffers (frame slot -> handle)
    cbState,               \* Vulkan state of each command buffer of the pool
    isFrameStarted,        \* renderer::isFrameStarted
    currentFrameIndex,     \* renderer::currentFrameIndex
    currentImageIndex,     \* renderer::currentImageIndex
    renderPass,            \* the render pass instance open in the command buffer being recorded
    result,                \* beginFrame / endFrame: local `result`
    retval,                \* value the last beginFrame returned to its caller
    callAcquires,          \* acquireNextImage calls made by the call in progress
    callRecreations,       \* recreateSwapchain calls made by the call in progress
    callBegins,            \* vkBeginCommandBuffer calls made by the call in progress
    callSubmits,           \* submitCommandBuffers calls made by the call in progress
    callResized,           \* endFrame: the window's resize flag when line 102 was reached
    callEvents,            \* a resize event was delivered by glfwWaitEvents during the call in progress
    recreateSteps,         \* the steps the recreateSwapchain in progress has performed, in order
    fault,                 \* message of the assertion or exception that ended the run ("none" before)
    mpc,                   \* engine::model: position of the thread constructing / using the model
    vertices,              \* model::Builder::vertices
    indices,               \* model::Builder::indices
    vertexCount,           \* model::vertexCount
    indexCount,            \* model::indexCount
    hasIndexBuffer,        \* model::hasIndexBuffer
    vertexBuffer,          \* model::vertexBuffer / vertexBufferMemory (buffer id or NULL)
    indexBuffer,           \* model::indexBuffer / indexBufferMemory (buffer id or NULL)
    stagingBuffer,         \* createVertexBuffers / createIndexBuffer: locals stagingBuffer / stagingBufferMemory
    data,                  \* createVertexBuffers / createIndexBuffer: local `data` (id of the mapped memory or NULL)
    buffers,               \* the device's buffers and their memory, by id
    commands,              \* the commands the last bind / draw recorded
    lpc,                   \* Builder::loadModel: position of the thread of control
    file,                  \* the mesh file on disk, as the parser reads it: attrib and shapes
    filepath,              \* loadModel: argument `filepath`
    attrib,                \* loadModel: local `attrib`
    shapes,                \* loadModel: local `shapes` (each shape is its mesh.indices)
    shapeIt,               \* loadModel: position of the outer loop (number of the shape)
    indexIt,               \* loadModel: position of the inner loop (number of the index in the shape)
    vertexInstance,        \* loadModel: local `vertexInstance`
    uniqueVertices,        \* loadModel: local `uniqueVertices`, its entries in insertion order
    synthesized,           \* the Vertex values the call in progress has synthesized, in source order
    loadOutcome,           \* how the last loadModel ended: "none", "returned", "thrown"
    firstLoad              \* what the first loadModel that returned left in the builder

rvars == <<pc, caller, windowExtent, windowResized, extent, swapchainInstance,
           oldSwapchainInstance, swapchains, commandBuffers, cbState, isFrameStarted,
           currentFrameIndex, currentImageIndex, renderPass, result, retval,
           callAcquires, callRecreations, callBegins, callSubmits, callResized, callEvents,
           recreateSteps, fault>>

mvars == <<mpc, vertices, indices, vertexCount, indexCount, hasIndexBuffer, vertexBuffer,
           indexBuffer, stagingBuffer, data, buffers, commands>>

lvars == <<lpc, file, filepath, attrib, shapes, shapeIt, indexIt, vertexInstance,
           uniqueVertices, synthesized, loadOutcome, firstLoad>>

vars == <<rvars, mvars, lvars>>

(* ----------------------------- helpers -------------------------------- *)

\* faulty variant: the loop condition tests the width alone
ExtentIsDegenerate_WidthOnly(e) == e[1] = 0

\* renderer.cpp:20  the loop condition of recreateSwapchain
ExtentIsDegenerate(e) == e[1] = 0 \/ e[2] = 0

\* the swapchain objects that exist
LiveSwapchains == {id \in SwapchainIds : swapchains[id].alive}

\* identity given to the next swapchain object
FreshSwapchainId == CHOOSE id \in SwapchainIds : id \notin LiveSwapchains /\ \A j \in SwapchainIds : (j \notin LiveSwapchains) => id <= j

\* swapchain::compareSwapFormats (swapchain.hpp): colour and depth format both equal
compareSwapFormats(old, new) == old.imageFormat = new.imageFormat /\ old.depthFormat = new.depthFormat

\* renderer::getCurrentCommandBuffer (renderer.hpp): the buffer of the current frame slot
getCurrentCommandBuffer == commandBuffers[currentFrameIndex]

\* faulty variant: the frame slot wraps one slot too late
NextFrameIndex_NoWrap(i) == (i + 1) % (MAX_FRAMES_IN_FLIGHT + 1)

\* renderer.cpp:111
NextFrameIndex(i) == (i + 1) % MAX_FRAMES_IN_FLIGHT

\* faulty variant: beginFrame without its assertion
BeginFrameAssert_Missing == TRUE

\* renderer.cpp:65
BeginFrameAssert == ~isFrameStarted

\* faulty variant: endFrame without its assertion
EndFrameAssert_Missing == TRUE

\* renderer.cpp:94
EndFrameAssert == isFrameStarted

\* renderer.cpp:70  the acquisition statuses that skip the frame
AcquireNeedsRecreation(r) == r = VK_ERROR_OUT_OF_DATE_KHR

\* renderer.cpp:75  the acquisition statuses that are fatal
AcquireIsFatal(r) == r # VK_SUCCESS /\ r # VK_SUBOPTIMAL_KHR

\* faulty variant: the skipped frame still hands out the current command buffer
BeginFrameSkipValue_Current == getCurrentCommandBuffer

\* renderer.cpp:72  what beginFrame returns when the frame has not started
BeginFrameSkipValue == NULL

\* faulty variant: endFrame ignores the window's resize flag
SubmitNeedsRecreation_IgnoreResize(r, resized) == r = VK_ERROR_OUT_OF_DATE_KHR \/ r = VK_SUBOPTIMAL_KHR

\* renderer.cpp:102  the condition under which endFrame recreates the swapchain
SubmitNeedsRecreation(r, resized) == r = VK_ERROR_OUT_OF_DATE_KHR \/ r = VK_SUBOPTIMAL_KHR \/ resized

\* renderer.cpp:106  the submission statuses that are fatal (reached only when no recreation is needed)
SubmitIsFatal(r) == r # VK_SUCCESS

\* renderer.cpp:115 and 152  the first assertion of the render pass wrappers
RenderPassFrameAssert == isFrameStarted

\* faulty variant: the render pass wrappers without their second assertion
RenderPassBufferAssert_Missing(commandBuffer) == TRUE

\* renderer.cpp:116 and 153  the second assertion of the render pass wrappers
RenderPassBufferAssert(commandBuffer) == commandBuffer = getCurrentCommandBuffer

\* faulty variant: only the colour format is compared
SwapFormatsChanged_DepthIgnored(old, new) == old.imageFormat # new.imageFormat

\* renderer.cpp:36  the new swapchain's formats differ from the old one's
SwapFormatsChanged(old, new) == ~compareSwapFormats(old, new)

\* where recreateSwapchain returns to
ReturnPc == CASE caller = "ctor" -> "ctor_cmd"
              [] caller = "beginFrame" -> "bf_return"
              [] caller = "endFrame" -> "ef_finish"
              [] OTHER -> "idle"

\* the per-call bookkeeping once a call has returned or not yet begun
CallReset == /\ caller' = "none"
             /\ result' = NoResult
             /\ callAcquires' = 0
             /\ callRecreations' = 0
             /\ callBegins' = 0
             /\ callSubmits' = 0
             /\ callResized' = FALSE
             /\ callEvents' = FALSE

CallUnchanged == UNCHANGED <<caller, result, callAcquires, callRecreations, callBegins, callSubmits, callResized, callEvents>>

\* the run goes on
NoFault == UNCHANGED fault

\* the steps of the recreateSwapchain in progress, after it has performed `step`
\* (the passes of the polling loop count as one step)
StepsWith(step) ==
    IF recreateSteps # <<>> /\ recreateSteps[Len(recreateSteps)] = step
    THEN recreateSteps
    ELSE Append(recreateSteps, step)

\* throw std::runtime_error(message): the exception leaves the renderer
Throw(message) == /\ pc' = "thrown"
                  /\ fault' = message

WindowUnchanged == UNCHANGED <<windowExtent, windowResized>>

SwapchainUnchanged == UNCHANGED <<extent, swapchainInstance, oldSwapchainInstance, swapchains>>

FrameUnchanged == UNCHANGED <<commandBuffers, cbState, isFrameStarted, currentFrameIndex, currentImageIndex, renderPass, retval>>

\* assert(condition && message) with a false condition: the process aborts, nothing else changes
Abort(message) == /\ pc' = "aborted"
                  /\ fault' = message
                  /\ UNCHANGED <<caller, windowExtent, windowResized, extent, swapchainInstance,
                                 oldSwapchainInstance, swapchains, commandBuffers, cbState, isFrameStarted,
                                 currentFrameIndex, currentImageIndex, renderPass, result, retval,
                                 callAcquires, callRecreations, callBegins, callSubmits, callResized, callEvents>>

(* ----------------------------- the window ----------------------------- *)

\* the resize callback of the window (window.cpp): records the new size and raises the flag
WindowResizeCallback(e) == /\ windowExtent' = e
                           /\ windowResized' = TRUE

\* glfwPollEvents in the frame loop, between two renderer calls
WindowEvent == /\ pc = "idle"
               /\ UNCHANGED recreateSteps
               /\ \E e \in Extents : WindowResizeCallback(e)
               /\ UNCHANGED <<pc, mvars, lvars>>
               /\ SwapchainUnchanged /\ FrameUnchanged /\ CallUnchanged /\ NoFault

(* ------------------------- recreateSwapchain -------------------------- *)

\* renderer.cpp:17
RS_GetExtent == /\ pc = "rs_getExtent"
                /\ extent' = windowExtent
                /\ recreateSteps' = StepsWith("poll")
                /\ pc' = "rs_loop"
                /\ UNCHANGED <<swapchainInstance, oldSwapchainInstance, swapchains, mvars, lvars>>
                /\ WindowUnchanged /\ FrameUnchanged /\ CallUnchanged /\ NoFault

\* faulty variant: the loop is left for the construction of the swapchain
LoopExit_SkipWaitIdle == "rs_construct"

\* renderer.cpp:20-26  where control goes when the loop is left: to vkDeviceWaitIdle
LoopExit == "rs_waitIdle"

\* renderer.cpp:20
RS_LoopTest == /\ pc = "rs_loop"
               /\ pc' = IF ExtentIsDegenerate(extent) THEN "rs_loopGet" ELSE LoopExit
               /\ UNCHANGED <<recreateSteps, mvars, lvars>>
               /\ SwapchainUnchanged /\ WindowUnchanged /\ FrameUnchanged /\ CallUnchanged /\ NoFault

\* renderer.cpp:21
RS_LoopGetExtent == /\ pc = "rs_loopGet"
                    /\ extent' = windowExtent
                    /\ recreateSteps' = StepsWith("poll")
                    /\ pc' = "rs_wait"
                    /\ UNCHANGED <<swapchainInstance, oldSwapchainInstance, swapchains, mvars, lvars>>
                    /\ WindowUnchanged /\ FrameUnchanged /\ CallUnchanged /\ NoFault

\* renderer.cpp:22  glfwWaitEvents: blocks until events arrive and runs their callbacks;
\* the events may or may not include a resize
RS_WaitEvents == /\ pc = "rs_wait"
                 /\ \E resize \in BOOLEAN :
                      IF resize
                      THEN /\ \E e \in Extents : WindowResizeCallback(e)
                           /\ callEvents' = TRUE
                      ELSE /\ WindowUnchanged
                           /\ callEvents' = callEvents
                 /\ pc' = "rs_loop"
                 /\ recreateSteps' = StepsWith("poll")
                 /\ UNCHANGED <<caller, result, callAcquires, callRecreations, callBegins, callSubmits, callResized, mvars, lvars>>
                 /\ SwapchainUnchanged /\ FrameUnchanged /\ NoFault

\* renderer.cpp:26  vkDeviceWaitIdle: every submitted command buffer has finished executing
RS_DeviceWaitIdle == /\ pc = "rs_waitIdle"
                     /\ cbState' = [s \in DOMAIN cbState |-> IF cbState[s] = "pending" THEN "executable" ELSE cbState[s]]
                     /\ pc' = "rs_construct"
                     /\ recreateSteps' = StepsWith("idle")
                     /\ UNCHANGED <<commandBuffers, isFrameStarted, currentFrameIndex, currentImageIndex, renderPass, retval, mvars, lvars>>
                     /\ SwapchainUnchanged /\ WindowUnchanged /\ CallUnchanged /\ NoFault

\* renderer.cpp:29-34  construct the new swapchain with the local extent; its formats are
\* whatever the surface offers now
RS_Construct == /\ pc = "rs_construct"
                /\ \E imf \in ImageFormats, df \in DepthFormats :
                     LET id == FreshSwapchainId
                         new == [extent |-> extent, imageFormat |-> imf, depthFormat |-> df, alive |-> TRUE]
                     IN /\ swapchains' = [swapchains EXCEPT ![id] = new]
                        /\ swapchainInstance' = id
                        /\ IF swapchainInstance = NULL
                           THEN /\ oldSwapchainInstance' = oldSwapchainInstance
                                /\ pc' = "rs_return"
                           ELSE /\ oldSwapchainInstance' = swapchainInstance
                                /\ pc' = "rs_compare"
                /\ recreateSteps' = StepsWith("construct")
                /\ UNCHANGED <<extent, mvars, lvars>>
                /\ WindowUnchanged /\ FrameUnchanged /\ CallUnchanged /\ NoFault

\* faulty variant: the old swapchain outlives the last reference to it
Released_Leaked(sc) == sc

\* renderer.cpp:39  the last shared_ptr to a swapchain goes away: the swapchain is destroyed
Released(sc) == NoSwapchain

\* renderer.cpp:36-38  compare the formats; on a mismatch throw (unwinding destroys the
\* local oldSwapchainInstance and with it the old swapchain)
RS_Compare == /\ pc = "rs_compare"
              /\ IF SwapFormatsChanged(swapchains[oldSwapchainInstance], swapchains[swapchainInstance])
                 THEN /\ Throw("swap chain image or depth format has changed!")
                      /\ swapchains' = [swapchains EXCEPT ![oldSwapchainInstance] = Released(swapchains[oldSwapchainInstance])]
                      /\ oldSwapchainInstance' = NULL
                      /\ recreateSteps' = StepsWith("drop")
                 ELSE /\ pc' = "rs_drop"
                      /\ NoFault
                      /\ UNCHANGED <<swapchains, oldSwapchainInstance, recreateSteps>>
              /\ UNCHANGED <<extent, swapchainInstance, mvars, lvars>>
              /\ WindowUnchanged /\ FrameUnchanged /\ CallUnchanged

\* renderer.cpp:39  end of the else block: oldSwapchainInstance goes out of scope and the
\* old swapchain is destroyed
RS_DropOld == /\ pc = "rs_drop"
              /\ swapchains' = [swapchains EXCEPT ![oldSwapchainInstance] = Released(swapchains[oldSwapchainInstance])]
              /\ oldSwapchainInstance' = NULL
              /\ pc' = "rs_return"
              /\ recreateSteps' = StepsWith("drop")
              /\ UNCHANGED <<extent, swapchainInstance, mvars, lvars>>
              /\ WindowUnchanged /\ FrameUnchanged /\ CallUnchanged /\ NoFault

\* renderer.cpp:40  return to the caller; the local extent goes out of scope
RS_Return == /\ pc = "rs_return"
             /\ pc' = ReturnPc
             /\ extent' = NoExtent
             /\ recreateSteps' = <<>>
             /\ UNCHANGED <<swapchainInstance, oldSwapchainInstance, swapchains, mvars, lvars>>
             /\ WindowUnchanged /\ FrameUnchanged /\ CallUnchanged /\ NoFault

(* --------------------------- the constructor -------------------------- *)

\* renderer.cpp:42-57  createCommandBuffers, then the constructor returns
Ctor_CreateCommandBuffers == /\ pc = "ctor_cmd"
                             /\ UNCHANGED recreateSteps
                             /\ \E ok \in BOOLEAN :
                                  IF ok
                                  THEN /\ commandBuffers' = [s \in FrameSlots |-> s + 1]
                                       /\ cbState' = [s \in FrameSlots |-> "initial"]
                                       /\ pc' = "idle"
                                       /\ NoFault
                                       /\ CallReset
                                  ELSE /\ Throw("failed to allocate command buffers!")
                                       /\ UNCHANGED <<commandBuffers, cbState>>
                                       /\ CallUnchanged
                             /\ UNCHANGED <<isFrameStarted, currentFrameIndex, currentImageIndex, renderPass, retval, mvars, lvars>>
                             /\ SwapchainUnchanged /\ WindowUnchanged

(* ------------------------------ beginFrame ---------------------------- *)

\* renderer.cpp:64-90  with the status r and image index img of acquireNextImage and the
\* outcome beginOk of vkBeginCommandBuffer
BeginFrame(r, img, beginOk) ==
    /\ pc = "idle"
    /\ UNCHANGED recreateSteps
    /\ IF ~BeginFrameAssert
       THEN Abort("Can't call beginFrame while already in progress")
       ELSE /\ currentImageIndex' = img
            /\ IF AcquireNeedsRecreation(r)
               THEN /\ pc' = "rs_getExtent"
                    /\ NoFault
                    /\ caller' = "beginFrame"
                    /\ result' = r
                    /\ callAcquires' = 1
                    /\ callRecreations' = 1
                    /\ UNCHANGED <<callBegins, callSubmits, callResized, callEvents>>
                    /\ UNCHANGED <<isFrameStarted, cbState, renderPass, retval>>
               ELSE IF AcquireIsFatal(r)
               THEN /\ Throw("failed to acquire swap chain image!")
                    /\ CallUnchanged
                    /\ UNCHANGED <<isFrameStarted, cbState, renderPass, retval>>
               ELSE /\ isFrameStarted' = TRUE
                    /\ CallUnchanged
                    /\ IF beginOk
                       THEN /\ cbState' = [cbState EXCEPT ![currentFrameIndex] = "recording"]
                            /\ renderPass' = NoPass
                            /\ retval' = getCurrentCommandBuffer
                            /\ pc' = "idle"
                            /\ NoFault
                       ELSE /\ Throw("failed to begin recording command buffer!")
                            /\ UNCHANGED <<cbState, renderPass, retval>>
            /\ UNCHANGED <<commandBuffers, currentFrameIndex>>
            /\ SwapchainUnchanged /\ WindowUnchanged
    /\ UNCHANGED <<mvars, lvars>>

CallBeginFrame == \E r \in VkResults, img \in ImageIndices, beginOk \in BOOLEAN : BeginFrame(r, img, beginOk)

\* renderer.cpp:72  after the recreation: return "no frame"
BF_Return == /\ pc = "bf_return"
             /\ UNCHANGED recreateSteps
             /\ retval' = BeginFrameSkipValue
             /\ pc' = "idle"
             /\ NoFault
             /\ CallReset
             /\ UNCHANGED <<commandBuffers, cbState, isFrameStarted, currentFrameIndex, currentImageIndex, renderPass, mvars, lvars>>
             /\ SwapchainUnchanged /\ WindowUnchanged

(* ------------------------------- endFrame ----------------------------- *)

\* renderer.cpp:93-108  end recording (outcome endOk), submit (status r), decide on recreation
EndFrame(endOk, r) ==
    /\ pc = "idle"
    /\ UNCHANGED recreateSteps
    /\ IF ~EndFrameAssert
       THEN Abort("Can't call endFrame while frame is not in progress")
       ELSE /\ IF ~endOk
               THEN /\ Throw("failed to record command buffer!")
                    /\ CallUnchanged
                    /\ UNCHANGED <<cbState, renderPass, windowResized>>
               ELSE /\ cbState' = [cbState EXCEPT ![currentFrameIndex] = "pending"]
                    /\ renderPass' = NoPass
                    /\ caller' = "endFrame"
                    /\ result' = r
                    /\ callSubmits' = 1
                    /\ callResized' = windowResized
                    /\ UNCHANGED <<callAcquires, callBegins, callEvents>>
                    /\ IF SubmitNeedsRecreation(r, windowResized)
                       THEN /\ windowResized' = FALSE
                            /\ callRecreations' = 1
                            /\ pc' = "rs_getExtent"
                            /\ NoFault
                       ELSE /\ UNCHANGED <<windowResized, callRecreations>>
                            /\ IF SubmitIsFatal(r)
                               THEN Throw("failed to present swap chain image!")
                               ELSE pc' = "ef_finish" /\ NoFault
            /\ UNCHANGED <<windowExtent, commandBuffers, isFrameStarted, currentFrameIndex, currentImageIndex, retval>>
            /\ SwapchainUnchanged
    /\ UNCHANGED <<mvars, lvars>>

CallEndFrame == \E endOk \in BOOLEAN, r \in VkResults : EndFrame(endOk, r)

\* renderer.cpp:110-112  mark the frame idle, advance the frame slot, and flow off the end
\* of a function declared to return VkCommandBuffer: undefined behaviour, which a build
\* turns into a return of an indeterminate value or into a trap
EF_Finish == /\ pc = "ef_finish"
             /\ UNCHANGED recreateSteps
             /\ isFrameStarted' = FALSE
             /\ currentFrameIndex' = NextFrameIndex(currentFrameIndex)
             /\ \E trap \in BOOLEAN :
                  IF trap
                  THEN /\ pc' = "undefined"
                       /\ fault' = "flowed off the end of endFrame"
                       /\ CallUnchanged
                  ELSE /\ pc' = "idle"
                       /\ NoFault
                       /\ CallReset
             /\ UNCHANGED <<commandBuffers, cbState, currentImageIndex, renderPass, retval, mvars, lvars>>
             /\ SwapchainUnchanged /\ WindowUnchanged

(* -------------------------- render pass wrappers ---------------------- *)

\* faulty variant: the framebuffer is picked by the frame slot
RenderPassFramebuffer_FrameSlot == currentFrameIndex

\* renderer.cpp:122  swapchainInstance->getFrameBuffer(currentImageIndex)
RenderPassFramebuffer == currentImageIndex

\* renderer.cpp:114-149
BeginSwapchainRenderPass(commandBuffer) ==
    /\ pc = "idle"
    /\ UNCHANGED recreateSteps
    /\ IF ~RenderPassFrameAssert
       THEN Abort("Can't call beginSwapchainRenderPass if frame is not in progress")
       ELSE IF ~RenderPassBufferAssert(commandBuffer)
       THEN Abort("Can't begin render pass on command buffer from a different frame")
       ELSE /\ renderPass' = [active |-> TRUE, commandBuffer |-> commandBuffer,
                              swapchain |-> swapchainInstance, framebuffer |-> RenderPassFramebuffer,
                              extent |-> swapchains[swapchainInstance].extent]
            /\ pc' = "idle"
            /\ NoFault
            /\ UNCHANGED <<commandBuffers, cbState, isFrameStarted, currentFrameIndex, currentImageIndex, retval>>
            /\ SwapchainUnchanged /\ WindowUnchanged /\ CallUnchanged
    /\ UNCHANGED <<mvars, lvars>>

\* renderer.cpp:151-156
EndSwapchainRenderPass(commandBuffer) ==
    /\ pc = "idle"
    /\ UNCHANGED recreateSteps
    /\ IF ~RenderPassFrameAssert
       THEN Abort("Can't call endSwapchainRenderPass if frame is not in progress")
       ELSE IF ~RenderPassBufferAssert(commandBuffer)
       THEN Abort("Can't end render pass on command buffer from a different frame")
       ELSE /\ renderPass' = NoPass
            /\ pc' = "idle"
            /\ NoFault
            /\ UNCHANGED <<commandBuffers, cbState, isFrameStarted, currentFrameIndex, currentImageIndex, retval>>
            /\ SwapchainUnchanged /\ WindowUnchanged /\ CallUnchanged
    /\ UNCHANGED <<mvars, lvars>>

CallBeginSwapchainRenderPass == \E commandBuffer \in Handles : BeginSwapchainRenderPass(commandBuffer)

CallEndSwapchainRenderPass == \E commandBuffer \in Handles : EndSwapchainRenderPass(commandBuffer)

(* ------------------------- engine::model ------------------------------ *)

\* model.hpp:14-18  sizeof(Vertex): 3 + 3 + 3 + 2 floats
SizeofVertex == 4 * (3 + 3 + 3 + 2)

\* model.cpp:75  sizeof(indices[0]): one uint32_t
SizeofIndex == 4 * 1

\* faulty variant: the assertion accepts any non-empty vertex sequence
VertexCountAssert_NonEmpty(n) == n >= 1

\* model.cpp:46  the assertion of createVertexBuffers
VertexCountAssert(n) == n >= 3

\* a buffer id the device has not handed out yet
FreshBufferId == CHOOSE id \in BufferIds : buffers[id].buffer = "none" /\ \A j \in BufferIds : buffers[j].buffer = "none" => id <= j

\* device::createBuffer (device.cpp): a VkBuffer of the given size and usage, bound to
\* freshly allocated memory with the given properties
createBuffer(size, usage, properties) ==
    [size |-> size, usage |-> usage, properties |-> properties, buffer |-> "created",
     memory |-> "allocated", mapped |-> FALSE, contents |-> <<>>]

MUnchanged == UNCHANGED <<rvars, lvars>>

\* model.cpp:45-46
CVB_Count == /\ mpc = "cvb_count"
             /\ vertexCount' = Len(vertices)
             /\ mpc' = IF VertexCountAssert(vertexCount') THEN "cvb_staging" ELSE "aborted"
             /\ UNCHANGED <<vertices, indices, indexCount, hasIndexBuffer, vertexBuffer, indexBuffer, stagingBuffer, data, buffers, commands>>
             /\ MUnchanged

\* model.cpp:49-52
CVB_CreateStaging == /\ mpc = "cvb_staging"
                     /\ LET id == FreshBufferId
                        IN /\ buffers' = [buffers EXCEPT ![id] = createBuffer(SizeofVertex * vertexCount, {"TRANSFER_SRC"}, {"HOST_VISIBLE", "HOST_COHERENT"})]
                           /\ stagingBuffer' = id
                     /\ mpc' = "cvb_map"
                     /\ UNCHANGED <<vertices, indices, vertexCount, indexCount, hasIndexBuffer, vertexBuffer, indexBuffer, data, commands>>
                     /\ MUnchanged

\* model.cpp:56
CVB_Map == /\ mpc = "cvb_map"
           /\ buffers' = [buffers EXCEPT ![stagingBuffer].mapped = TRUE]
           /\ data' = stagingBuffer
           /\ mpc' = "cvb_memcpy"
           /\ UNCHANGED <<vertices, indices, vertexCount, indexCount, hasIndexBuffer, vertexBuffer, indexBuffer, stagingBuffer, commands>>
           /\ MUnchanged

\* model.cpp:57
CVB_Memcpy == /\ mpc = "cvb_memcpy"
              /\ buffers' = [buffers EXCEPT ![data].contents = vertices]
              /\ mpc' = "cvb_unmap"
              /\ UNCHANGED <<vertices, indices, vertexCount, indexCount, hasIndexBuffer, vertexBuffer, indexBuffer, stagingBuffer, data, commands>>
              /\ MUnchanged

\* faulty variant: the memory stays mapped
Unmapped_StillMapped(b) == b

\* model.cpp:58, 84  vkUnmapMemory
Unmapped(b) == [b EXCEPT !.mapped = FALSE]

\* model.cpp:58
CVB_Unmap == /\ mpc = "cvb_unmap"
             /\ buffers' = [buffers EXCEPT ![stagingBuffer] = Unmapped(buffers[stagingBuffer])]
             /\ mpc' = "cvb_device"
             /\ UNCHANGED <<vertices, indices, vertexCount, indexCount, hasIndexBuffer, vertexBuffer, indexBuffer, stagingBuffer, data, commands>>
             /\ MUnchanged

\* model.cpp:61
CVB_CreateVertexBuffer == /\ mpc = "cvb_device"
                          /\ LET id == FreshBufferId
                             IN /\ buffers' = [buffers EXCEPT ![id] = createBuffer(SizeofVertex * vertexCount, {"VERTEX_BUFFER", "TRANSFER_DST"}, {"DEVICE_LOCAL"})]
                                /\ vertexBuffer' = id
                          /\ mpc' = "cvb_copy"
                          /\ UNCHANGED <<vertices, indices, vertexCount, indexCount, hasIndexBuffer, indexBuffer, stagingBuffer, data, commands>>
                          /\ MUnchanged

\* model.cpp:62  device::copyBuffer returns when the copy has been executed
CVB_Copy == /\ mpc = "cvb_copy"
            /\ buffers' = [buffers EXCEPT ![vertexBuffer].contents = buffers[stagingBuffer].contents]
            /\ mpc' = "cvb_destroy"
            /\ UNCHANGED <<vertices, indices, vertexCount, indexCount, hasIndexBuffer, vertexBuffer, indexBuffer, stagingBuffer, data, commands>>
            /\ MUnchanged

\* model.cpp:64
CVB_DestroyStaging == /\ mpc = "cvb_destroy"
                      /\ buffers' = [buffers EXCEPT ![stagingBuffer].buffer = "destroyed"]
                      /\ mpc' = "cvb_free"
                      /\ UNCHANGED <<vertices, indices, vertexCount, indexCount, hasIndexBuffer, vertexBuffer, indexBuffer, stagingBuffer, data, commands>>
                      /\ MUnchanged

\* model.cpp:65-66, 24  free the staging memory, return, and enter createIndexBuffer
CVB_FreeStaging == /\ mpc = "cvb_free"
                   /\ buffers' = [buffers EXCEPT ![stagingBuffer].memory = "freed"]
                   /\ stagingBuffer' = NULL
                   /\ data' = NULL
                   /\ mpc' = "cib_count"
                   /\ UNCHANGED <<vertices, indices, vertexCount, indexCount, hasIndexBuffer, vertexBuffer, indexBuffer, commands>>
                   /\ MUnchanged

\* faulty variant: a single index does not count as an index sequence
HasIndices_MoreThanOne(n) == n > 1

\* model.cpp:71  the test that decides hasIndexBuffer
HasIndices(n) == n > 0

\* model.cpp:70-72
CIB_Count == /\ mpc = "cib_count"
             /\ indexCount' = Len(indices)
             /\ hasIndexBuffer' = HasIndices(indexCount')
             /\ mpc' = IF hasIndexBuffer' THEN "cib_staging" ELSE "live"
             /\ UNCHANGED <<vertices, indices, vertexCount, vertexBuffer, indexBuffer, stagingBuffer, data, buffers, commands>>
             /\ MUnchanged

\* model.cpp:75-78
CIB_CreateStaging == /\ mpc = "cib_staging"
                     /\ LET id == FreshBufferId
                        IN /\ buffers' = [buffers EXCEPT ![id] = createBuffer(SizeofIndex * indexCount, {"TRANSFER_SRC"}, {"HOST_VISIBLE", "HOST_COHERENT"})]
                           /\ stagingBuffer' = id
                     /\ mpc' = "cib_map"
                     /\ UNCHANGED <<vertices, indices, vertexCount, indexCount, hasIndexBuffer, vertexBuffer, indexBuffer, data, commands>>
                     /\ MUnchanged

\* model.cpp:82
CIB_Map == /\ mpc = "cib_map"
           /\ buffers' = [buffers EXCEPT ![stagingBuffer].mapped = TRUE]
           /\ data' = stagingBuffer
           /\ mpc' = "cib_memcpy"
           /\ UNCHANGED <<vertices, indices, vertexCount, indexCount, hasIndexBuffer, vertexBuffer, indexBuffer, stagingBuffer, commands>>
           /\ MUnchanged

\* model.cpp:83
CIB_Memcpy == /\ mpc = "cib_memcpy"
              /\ buffers' = [buffers EXCEPT ![data].contents = indices]
              /\ mpc' = "cib_unmap"
              /\ UNCHANGED <<vertices, indices, vertexCount, indexCount, hasIndexBuffer, vertexBuffer, indexBuffer, stagingBuffer, data, commands>>
              /\ MUnchanged

\* model.cpp:84
CIB_Unmap == /\ mpc = "cib_unmap"
             /\ buffers' = [buffers EXCEPT ![stagingBuffer] = Unmapped(buffers[stagingBuffer])]
             /\ mpc' = "cib_device"
             /\ UNCHANGED <<vertices, indices, vertexCount, indexCount, hasIndexBuffer, vertexBuffer, indexBuffer, stagingBuffer, data, commands>>
             /\ MUnchanged

\* model.cpp:87
CIB_CreateIndexBuffer == /\ mpc = "cib_device"
                         /\ LET id == FreshBufferId
                            IN /\ buffers' = [buffers EXCEPT ![id] = createBuffer(SizeofIndex * indexCount, {"INDEX_BUFFER", "TRANSFER_DST"}, {"DEVICE_LOCAL"})]
                               /\ indexBuffer' = id
                         /\ mpc' = "cib_copy"
                         /\ UNCHANGED <<vertices, indices, vertexCount, indexCount, hasIndexBuffer, vertexBuffer, stagingBuffer, data, commands>>
                         /\ MUnchanged

\* model.cpp:88
CIB_Copy == /\ mpc = "cib_copy"
            /\ buffers' = [buffers EXCEPT ![indexBuffer].contents = buffers[stagingBuffer].contents]
            /\ mpc' = "cib_destroy"
            /\ UNCHANGED <<vertices, indices, vertexCount, indexCount, hasIndexBuffer, vertexBuffer, indexBuffer, stagingBuffer, data, commands>>
            /\ MUnchanged

\* model.cpp:90
CIB_DestroyStaging == /\ mpc = "cib_destroy"
                      /\ buffers' = [buffers EXCEPT ![stagingBuffer].buffer = "destroyed"]
                      /\ mpc' = "cib_free"
                      /\ UNCHANGED <<vertices, indices, vertexCount, indexCount, hasIndexBuffer, vertexBuffer, indexBuffer, stagingBuffer, data, commands>>
                      /\ MUnchanged

\* model.cpp:91-92, 25  free the staging memory, return; the constructor returns
CIB_FreeStaging == /\ mpc = "cib_free"
                   /\ buffers' = [buffers EXCEPT ![stagingBuffer].memory = "freed"]
                   /\ stagingBuffer' = NULL
                   /\ data' = NULL
                   /\ mpc' = "live"
                   /\ UNCHANGED <<vertices, indices, vertexCount, indexCount, hasIndexBuffer, vertexBuffer, indexBuffer, commands>>
                   /\ MUnchanged

\* model.cpp:94-102
bind(commandBuffer) ==
    /\ mpc = "live"
    /\ commands' = <<[cmd |-> "vkCmdBindVertexBuffers", commandBuffer |-> commandBuffer, buffer |-> vertexBuffer, count |-> 1]>>
                   \o (IF hasIndexBuffer
                       THEN <<[cmd |-> "vkCmdBindIndexBuffer", commandBuffer |-> commandBuffer, buffer |-> indexBuffer, count |-> 1]>>
                       ELSE <<>>)
    /\ UNCHANGED <<mpc, vertices, indices, vertexCount, indexCount, hasIndexBuffer, vertexBuffer, indexBuffer, stagingBuffer, data, buffers>>
    /\ MUnchanged

\* model.cpp:104-111
draw(commandBuffer) ==
    /\ mpc = "live"
    /\ commands' = IF hasIndexBuffer
                   THEN <<[cmd |-> "vkCmdDrawIndexed", commandBuffer |-> commandBuffer, buffer |-> NULL, count |-> indexCount]>>
                   ELSE <<[cmd |-> "vkCmdDraw", commandBuffer |-> commandBuffer, buffer |-> NULL, count |-> vertexCount]>>
    /\ UNCHANGED <<mpc, vertices, indices, vertexCount, indexCount, hasIndexBuffer, vertexBuffer, indexBuffer, stagingBuffer, data, buffers>>
    /\ MUnchanged

CallBind == \E commandBuffer \in CommandBufferHandles : bind(commandBuffer)

CallDraw == \E commandBuffer \in CommandBufferHandles : draw(commandBuffer)

\* model.cpp:27-35  the destructor
DestroyModel == /\ mpc = "live"
                /\ buffers' = [id \in BufferIds |->
                                 IF id = vertexBuffer \/ (hasIndexBuffer /\ id = indexBuffer)
                                 THEN [buffers[id] EXCEPT !.buffer = "destroyed", !.memory = "freed"]
                                 ELSE buffers[id]]
                /\ mpc' = "destroyed"
                /\ UNCHANGED <<vertices, indices, vertexCount, indexCount, hasIndexBuffer, vertexBuffer, indexBuffer, stagingBuffer, data, commands>>
                /\ MUnchanged

(* ---------------------- model::Builder::loadModel --------------------- *)

\* floats are integers here; two codes stand for the IEEE-754 values whose comparison is
\* not identity: -0.0 compares equal to 0.0, NaN compares equal to nothing
NegativeZero == 1000

NaN == 1001

\* float == float
FloatEq(a, b) == a # NaN /\ b # NaN /\ (a = b \/ {a, b} = {0, NegativeZero})

\* glm::vec == glm::vec: every component compares equal
VecEq(u, v) == \A k \in DOMAIN u : FloatEq(u[k], v[k])

\* faulty variant: two vertices at the same position compare equal
VertexEq_PositionOnly(a, b) == VecEq(a.position, b.position)

\* model.hpp:21-23  Vertex::operator==
VertexEq(a, b) == /\ VecEq(a.position, b.position)
                  /\ VecEq(a.color, b.color)
                  /\ VecEq(a.normal, b.normal)
                  /\ VecEq(a.uv, b.uv)

\* std::hash<float>: values that compare equal hash equal, so both zeros hash alike
hashFloat(a) == IF a = NegativeZero THEN 0 ELSE a

\* model.cpp:10-19  std::hash<Vertex>: the hashes of the four fields combined in order
hashVertex(v) == <<[k \in 1..3 |-> hashFloat(v.position[k])], [k \in 1..3 |-> hashFloat(v.color[k])],
                   [k \in 1..3 |-> hashFloat(v.normal[k])], [k \in 1..2 |-> hashFloat(v.uv[k])]>>

\* model.cpp:154  Vertex vertexInstance = {}
ZeroVertex == [position |-> <<0, 0, 0>>, color |-> <<0, 0, 0>>, normal |-> <<0, 0, 0>>, uv |-> <<0, 0>>]

\* std::unordered_map<Vertex, uint32_t>: the entries whose key has the hash of v and equals v
MapFind(m, v) == {k \in DOMAIN m : hashVertex(m[k].key) = hashVertex(v) /\ VertexEq(m[k].key, v)}

\* unordered_map::count
MapCount(m, v) == IF MapFind(m, v) = {} THEN 0 ELSE 1

\* unordered_map::operator[]: the entry of v, value-initialised and inserted when there is none
MapIndex(m, v) ==
    IF MapFind(m, v) = {}
    THEN [map |-> Append(m, [key |-> v, value |-> 0]), slot |-> Len(m) + 1]
    ELSE [map |-> m, slot |-> CHOOSE k \in MapFind(m, v) : \A j \in MapFind(m, v) : k <= j]

\* uniqueVertices[v] = value
MapAssign(m, v, value) ==
    LET at == MapIndex(m, v) IN [at.map EXCEPT ![at.slot].value = value]

\* three consecutive floats of a flat array, from the 0-based element `first`
Read3(array, first) == <<array[first + 1], array[first + 2], array[first + 3]>>

\* model.cpp:156-161  position of the vertex an index triple names
SynthPosition(a, index) ==
    IF index.vertex_index >= 0 THEN Read3(a.vertices, 3 * index.vertex_index) ELSE ZeroVertex.position

\* model.cpp:163-173  color: a window of attrib.colors ending at 3 * vertex_index + 2, white
\* when the window ends outside the array
SynthColor(a, index) ==
    IF index.vertex_index >= 0
    THEN LET colorIndex == 3 * index.vertex_index + 2
         IN IF colorIndex < Len(a.colors)
            THEN <<a.colors[(colorIndex - 2) + 1], a.colors[(colorIndex - 1) + 1], a.colors[(colorIndex - 0) + 1]>>
            ELSE <<1, 1, 1>>
    ELSE ZeroVertex.color

\* model.cpp:176-182  the normal is read from attrib.vertices at the normal index; the read
\* is inside the array only when the file has more positions than normal_index
NormalReadInBounds(a, index) == 3 * index.normal_index + 2 < Len(a.vertices)

\* model.cpp:184-189
SynthUv(a, index) ==
    IF index.texcoord_index >= 0
    THEN <<a.texcoords[2 * index.texcoord_index + 1], a.texcoords[2 * index.texcoord_index + 2]>>
    ELSE ZeroVertex.uv

\* what a read past the end of attrib.vertices can yield when it does not stop the process
GarbageRows == {<<0, 0, 0>>, <<NaN, NaN, NaN>>}

\* model.cpp:154-189  the Vertex values the loop body can synthesize for an index triple
SynthVertices(a, index) ==
    {[position |-> SynthPosition(a, index), color |-> SynthColor(a, index), normal |-> n, uv |-> SynthUv(a, index)] :
        n \in IF index.normal_index < 0 THEN {ZeroVertex.normal}
              ELSE IF NormalReadInBounds(a, index) THEN {Read3(a.vertices, 3 * index.normal_index)}
              ELSE GarbageRows}

\* sample rows of the arrays of a parsed file
PositionRows == {<<0, 0, 0>>, <<1, 0, 0>>}

NormalRow == <<0, 0, 1>>

\* attrib.texcoords of n rows: the rows compare equal, every second one holds a negative zero
TexcoordArray(n) == [j \in 1..(2 * n) |-> IF j % 2 = 0 THEN 1 ELSE IF j % 4 = 3 THEN NegativeZero ELSE 0]

\* the flat array holding n copies of a row
Repeat(row, n) == [j \in 1..(n * Len(row)) |-> row[((j - 1) % Len(row)) + 1]]

\* the flat array of a sequence of rows of three floats
Flat3(rows) == [j \in 1..(3 * Len(rows)) |-> rows[((j - 1) \div 3) + 1][((j - 1) % 3) + 1]]

\* attrib.colors as the parser fills it: empty, or one color per position
ColorArrays(n) == {<<>>, [j \in 1..(3 * n) |-> j % 2]}

\* tinyobj::attrib_t: the arrays of the files with at most MaxAttribRows rows in all
Attribs ==
    UNION {UNION {{[vertices |-> Flat3(rows), colors |-> c, normals |-> Repeat(NormalRow, n[1]),
                    texcoords |-> TexcoordArray(n[2])] :
                      c \in ColorArrays(Len(rows))} :
                  rows \in BoundedSeq(PositionRows, MaxAttribRows - (n[1] + n[2]))} :
           n \in {m \in (0..MaxAttribRows) \X (0..MaxAttribRows) : m[1] + m[2] <= MaxAttribRows}}

\* tinyobj::index_t: each index is absent (-1) or names a row of its own array
IndexTriples(a) ==
    [vertex_index : -1..((Len(a.vertices) \div 3) - 1),
     normal_index : -1..((Len(a.normals) \div 3) - 1),
     texcoord_index : -1..((Len(a.texcoords) \div 2) - 1)]

\* the shapes of a file whose stream of indices is cut into shapes of MaxShapeIndices indices
RECURSIVE ShapesOf(_)
ShapesOf(stream) ==
    IF Len(stream) = 0 THEN <<>>
    ELSE IF Len(stream) <= MaxShapeIndices THEN <<stream>>
    ELSE <<SubSeq(stream, 1, MaxShapeIndices)>> \o ShapesOf(SubSeq(stream, MaxShapeIndices + 1, Len(stream)))

\* what tinyobj::LoadObj yields for the mesh files of at most maxIndices face corners
Meshes(maxIndices) ==
    UNION {{[attrib |-> a, shapes |-> ShapesOf(stream)] : stream \in BoundedSeq(IndexTriples(a), maxIndices)} :
           a \in Attribs}

NoAttrib == [vertices |-> <<>>, colors |-> <<>>, normals |-> <<>>, texcoords |-> <<>>]

NoMesh == [attrib |-> NoAttrib, shapes |-> <<>>]

\* the paths loadModel is called with: the mesh file, and a path LoadObj cannot parse
MeshPath == "mesh.obj"

Filepaths == {MeshPath, "missing.obj"}

NoLoad == [loaded |-> FALSE, vertices |-> <<>>, indices |-> <<>>]

\* every model variable loadModel leaves alone (all but the builder's two sequences)
BuilderOnly == UNCHANGED <<mpc, vertexCount, indexCount, hasIndexBuffer, vertexBuffer, indexBuffer,
                           stagingBuffer, data, buffers, commands>>

LUnchanged == UNCHANGED rvars /\ BuilderOnly

\* the locals of loadModel outside a call
LocalsReset == /\ filepath' = ""
               /\ attrib' = NoAttrib
               /\ shapes' = <<>>
               /\ shapeIt' = 0
               /\ indexIt' = 0
               /\ vertexInstance' = ZeroVertex
               /\ uniqueVertices' = <<>>
               /\ synthesized' = <<>>

\* model.cpp:38  Builder builder{}: the caller takes a fresh builder
NewBuilder == /\ lpc = "l_idle"
              /\ vertices' = <<>>
              /\ indices' = <<>>
              /\ loadOutcome' = "none"
              /\ UNCHANGED <<lpc, file, filepath, attrib, shapes, shapeIt, indexIt, vertexInstance,
                             uniqueVertices, synthesized, firstLoad>>
              /\ LUnchanged

\* model.hpp:27-31  the builder's sequences are public: the caller holds a builder filled with
\* other geometry
FillBuilder == /\ lpc = "l_idle"
               /\ \E v \in VertexSamples : vertices' = <<v>>
               /\ indices' = <<0>>
               /\ loadOutcome' = "none"
               /\ UNCHANGED <<lpc, file, filepath, attrib, shapes, shapeIt, indexIt, vertexInstance,
                              uniqueVertices, synthesized, firstLoad>>
               /\ LUnchanged

\* model.cpp:136  entry of loadModel
CallLoadModel == /\ lpc = "l_idle"
                 /\ \E path \in Filepaths : filepath' = path
                 /\ loadOutcome' = "none"
                 /\ lpc' = "ld_parse"
                 /\ UNCHANGED <<vertices, indices, file, attrib, shapes, shapeIt, indexIt, vertexInstance,
                                uniqueVertices, synthesized, firstLoad>>
                 /\ LUnchanged

\* faulty variant: the result of LoadObj is ignored
LoadObjFailed_Ignored(path) == FALSE

\* model.cpp:142  !tinyobj::LoadObj(...): the file at the path cannot be parsed
LoadObjFailed(path) == path # MeshPath

\* model.cpp:142-144  LoadObj fills attrib and shapes, or fails and the call throws
LD_Parse == /\ lpc = "ld_parse"
            /\ IF ~LoadObjFailed(filepath)
               THEN /\ attrib' = file.attrib
                    /\ shapes' = file.shapes
                    /\ lpc' = "ld_clear"
                    /\ UNCHANGED <<filepath, shapeIt, indexIt, vertexInstance, uniqueVertices, synthesized, loadOutcome>>
               ELSE /\ LocalsReset
                    /\ loadOutcome' = "thrown"
                    /\ lpc' = "l_idle"
            /\ UNCHANGED <<vertices, indices, file, firstLoad>>
            /\ LUnchanged

\* faulty variant: the builder keeps what it held
Cleared_Kept(sequence) == sequence

\* model.cpp:147-148  std::vector::clear
Cleared(sequence) == <<>>

\* model.cpp:147-153  the builder is reset, the map is empty, the outer loop starts
LD_Clear == /\ lpc = "ld_clear"
            /\ vertices' = Cleared(vertices)
            /\ indices' = Cleared(indices)
            /\ uniqueVertices' = <<>>
            /\ shapeIt' = 1
            /\ lpc' = "ld_shape"
            /\ UNCHANGED <<file, filepath, attrib, shapes, indexIt, vertexInstance, synthesized, loadOutcome, firstLoad>>
            /\ LUnchanged

\* model.cpp:152  the outer loop takes the next shape
LD_NextShape == /\ lpc = "ld_shape"
                /\ shapeIt <= Len(shapes)
                /\ indexIt' = 1
                /\ lpc' = "ld_index"
                /\ UNCHANGED <<vertices, indices, file, filepath, attrib, shapes, shapeIt, vertexInstance,
                               uniqueVertices, synthesized, loadOutcome, firstLoad>>
                /\ LUnchanged

\* model.cpp:153  the inner loop takes the next index of the shape, or the shape is done
LD_NextIndex == /\ lpc = "ld_index"
                /\ IF indexIt <= Len(shapes[shapeIt])
                   THEN /\ lpc' = "ld_vertex"
                        /\ UNCHANGED <<shapeIt, indexIt>>
                   ELSE /\ shapeIt' = shapeIt + 1
                        /\ indexIt' = 0
                        /\ lpc' = "ld_shape"
                /\ UNCHANGED <<vertices, indices, file, filepath, attrib, shapes, vertexInstance,
                               uniqueVertices, synthesized, loadOutcome, firstLoad>>
                /\ LUnchanged

\* model.cpp:154-189  the Vertex of the index; a normal read past the end of attrib.vertices
\* yields whatever lies there, or stops the process
LD_Vertex == /\ lpc = "ld_vertex"
             /\ LET index == shapes[shapeIt][indexIt]
                IN \/ /\ \E v \in SynthVertices(attrib, index) : vertexInstance' = v
                      /\ synthesized' = Append(synthesized, vertexInstance')
                      /\ lpc' = "ld_dedup"
                   \/ /\ index.normal_index >= 0
                      /\ ~NormalReadInBounds(attrib, index)
                      /\ lpc' = "undefined"
                      /\ UNCHANGED <<vertexInstance, synthesized>>
             /\ UNCHANGED <<vertices, indices, file, filepath, attrib, shapes, shapeIt, indexIt,
                            uniqueVertices, loadOutcome, firstLoad>>
             /\ LUnchanged

\* faulty variant: positions are counted from one
VertexPosition_OneBased(sequence) == Len(sequence) + 1

\* model.cpp:192  static_cast<uint32_t>(vertices.size()): the position the next Vertex gets
VertexPosition(sequence) == Len(sequence)

\* model.cpp:191-195  a Vertex not seen before is appended and its position recorded; the
\* position recorded for the Vertex is appended to the indices
LD_Dedup == /\ lpc = "ld_dedup"
            /\ LET isNew == MapCount(uniqueVertices, vertexInstance) = 0
                   recorded == IF isNew THEN MapAssign(uniqueVertices, vertexInstance, VertexPosition(vertices)) ELSE uniqueVertices
                   at == MapIndex(recorded, vertexInstance)
               IN /\ vertices' = IF isNew THEN Append(vertices, vertexInstance) ELSE vertices
                  /\ uniqueVertices' = at.map
                  /\ indices' = Append(indices, at.map[at.slot].value)
            /\ indexIt' = indexIt + 1
            /\ lpc' = "ld_index"
            /\ UNCHANGED <<file, filepath, attrib, shapes, shapeIt, vertexInstance, synthesized, loadOutcome, firstLoad>>
            /\ LUnchanged

\* model.cpp:152, 198  no shape is left: loadModel returns
LD_Return == /\ lpc = "ld_shape"
             /\ shapeIt > Len(shapes)
             /\ LocalsReset
             /\ loadOutcome' = "returned"
             /\ firstLoad' = IF firstLoad.loaded THEN firstLoad
                             ELSE [loaded |-> TRUE, vertices |-> vertices, indices |-> indices]
             /\ lpc' = "l_idle"
             /\ UNCHANGED <<vertices, indices, file>>
             /\ LUnchanged

(* --------------------------- specification ---------------------------- *)

\* the loader part while only the renderer or a model runs
LoaderOff == /\ lpc = "off"
             /\ file = NoMesh
             /\ filepath = ""
             /\ attrib = NoAttrib
             /\ shapes = <<>>
             /\ shapeIt = 0
             /\ indexIt = 0
             /\ vertexInstance = ZeroVertex
             /\ uniqueVertices = <<>>
             /\ synthesized = <<>>
             /\ loadOutcome = "none"
             /\ firstLoad = NoLoad


\* the model part while only the renderer runs
ModelOff == /\ mpc = "off"
            /\ vertices = <<>>
            /\ indices = <<>>
            /\ vertexCount = 0
            /\ indexCount = 0
            /\ hasIndexBuffer = FALSE
            /\ vertexBuffer = NULL
            /\ indexBuffer = NULL
            /\ stagingBuffer = NULL
            /\ data = NULL
            /\ buffers = [id \in BufferIds |-> NoBuffer]
            /\ commands = <<>>

\* the renderer part while only a model runs
RendererOff == /\ pc = "off"
               /\ caller = "none"
               /\ windowExtent = NoExtent
               /\ windowResized = FALSE
               /\ extent = NoExtent
               /\ swapchainInstance = NULL
               /\ oldSwapchainInstance = NULL
               /\ swapchains = [id \in SwapchainIds |-> NoSwapchain]
               /\ commandBuffers = [s \in FrameSlots |-> NULL]
               /\ cbState = [s \in FrameSlots |-> "unallocated"]
               /\ isFrameStarted = FALSE
               /\ currentFrameIndex = 0
               /\ currentImageIndex = 0
               /\ renderPass = NoPass
               /\ result = NoResult
               /\ retval = NULL
               /\ callAcquires = 0
               /\ callRecreations = 0
               /\ callBegins = 0
               /\ callSubmits = 0
               /\ callResized = FALSE
               /\ callEvents = FALSE
               /\ recreateSteps = <<>>
               /\ fault = "none"

\* renderer.cpp:6-7  entry of the constructor body: members hold their default
\* initialisers (renderer.hpp), no swapchain exists, recreateSwapchain is about to run
Init == /\ pc = "rs_getExtent"
        /\ caller = "ctor"
        /\ windowExtent \in Extents
        /\ windowResized = FALSE
        /\ extent = NoExtent
        /\ swapchainInstance = NULL
        /\ oldSwapchainInstance = NULL
        /\ swapchains = [id \in SwapchainIds |-> NoSwapchain]
        /\ commandBuffers = [s \in FrameSlots |-> NULL]
        /\ cbState = [s \in FrameSlots |-> "unallocated"]
        /\ isFrameStarted = FALSE
        /\ currentFrameIndex = 0
        /\ currentImageIndex \in ImageIndices
        /\ renderPass = NoPass
        /\ result = NoResult
        /\ retval = NULL
        /\ callAcquires = 0
        /\ callRecreations = 1
        /\ callBegins = 0
        /\ callSubmits = 0
        /\ callResized = FALSE
        /\ callEvents = FALSE
        /\ recreateSteps = <<>>
        /\ fault = "none"
        /\ ModelOff
        /\ LoaderOff

Next == \/ WindowEvent
        \/ RS_GetExtent
        \/ RS_LoopTest
        \/ RS_LoopGetExtent
        \/ RS_WaitEvents
        \/ RS_DeviceWaitIdle
        \/ RS_Construct
        \/ RS_Compare
        \/ RS_DropOld
        \/ RS_Return
        \/ Ctor_CreateCommandBuffers
        \/ CallBeginFrame
        \/ BF_Return
        \/ CallEndFrame
        \/ EF_Finish
        \/ CallBeginSwapchainRenderPass
        \/ CallEndSwapchainRenderPass

Spec == Init /\ [][Next]_vars

\* model.cpp:22-23  entry of model::model with a builder of any content: hasIndexBuffer has
\* its default initialiser (model.hpp:52), the counts and handles are not yet assigned
InitModel == /\ RendererOff
             /\ LoaderOff
             /\ mpc = "cvb_count"
             /\ vertices \in BoundedSeq(VertexSamples, MaxVertices)
             /\ indices \in BoundedSeq(IndexSamples, MaxIndices)
             /\ vertexCount = 0
             /\ indexCount = 0
             /\ hasIndexBuffer = FALSE
             /\ vertexBuffer = NULL
             /\ indexBuffer = NULL
             /\ stagingBuffer = NULL
             /\ data = NULL
             /\ buffers = [id \in BufferIds |-> NoBuffer]
             /\ commands = <<>>

NextModel == \/ CVB_Count
             \/ CVB_CreateStaging
             \/ CVB_Map
             \/ CVB_Memcpy
             \/ CVB_Unmap
             \/ CVB_CreateVertexBuffer
             \/ CVB_Copy
             \/ CVB_DestroyStaging
             \/ CVB_FreeStaging
             \/ CIB_Count
             \/ CIB_CreateStaging
             \/ CIB_Map
             \/ CIB_Memcpy
             \/ CIB_Unmap
             \/ CIB_CreateIndexBuffer
             \/ CIB_Copy
             \/ CIB_DestroyStaging
             \/ CIB_FreeStaging
             \/ CallBind
             \/ CallDraw
             \/ DestroyModel

SpecModel == InitModel /\ [][NextModel]_vars

\* a caller holding a fresh builder (model.cpp:38) and a mesh file on disk
InitLoader == /\ RendererOff
              /\ ModelOff
              /\ lpc = "l_idle"
              /\ file \in Meshes(MaxMeshIndices)
              /\ filepath = ""
              /\ attrib = NoAttrib
              /\ shapes = <<>>
              /\ shapeIt = 0
              /\ indexIt = 0
              /\ vertexInstance = ZeroVertex
              /\ uniqueVertices = <<>>
              /\ synthesized = <<>>
              /\ loadOutcome = "none"
              /\ firstLoad = NoLoad

NextLoader == \/ NewBuilder
              \/ FillBuilder
              \/ CallLoadModel
              \/ LD_Parse
              \/ LD_Clear
              \/ LD_NextShape
              \/ LD_NextIndex
              \/ LD_Vertex
              \/ LD_Dedup
              \/ LD_Return

SpecLoader == InitLoader /\ [][NextLoader]_vars

(* ------------------------------ properties ---------------------------- *)

\* every renderer variable an assertion failure leaves alone (all but pc and fault)
AbortFrame == <<caller, windowExtent, windowResized, extent, swapchainInstance, oldSwapchainInstance,
                swapchains, commandBuffers, cbState, isFrameStarted, currentFrameIndex,
                currentImageIndex, renderPass, result, retval, callAcquires, callRecreations,
                callBegins, callSubmits, callResized, callEvents>>

\* the command buffers being recorded
Recording == {s \in FrameSlots : cbState[s] = "recording"}

\* C1: whenever acquireNextImage inside beginFrame reports VK_ERROR_OUT_OF_DATE_KHR, the call
\* starts exactly one swapchain recreation, acquires no second image, puts no command buffer
\* into the recording state, leaves isFrameStarted false, and returns nullptr.
C1_OutOfDateSkipsFrame ==
    [][ /\ \A img \in ImageIndices, beginOk \in BOOLEAN :
             (BeginFrame(VK_ERROR_OUT_OF_DATE_KHR, img, beginOk) /\ ~isFrameStarted)
                => /\ pc' = "rs_getExtent"
                   /\ caller' = "beginFrame"
                   /\ callRecreations' = 1
                   /\ callAcquires' = 1
                   /\ callBegins' = 0
                   /\ ~isFrameStarted'
                   /\ cbState' = cbState
        /\ (caller = "beginFrame" /\ pc # "bf_return")
                => /\ result = VK_ERROR_OUT_OF_DATE_KHR
                   /\ callRecreations' = 1
                   /\ callAcquires' = 1
                   /\ callBegins' = 0
                   /\ currentImageIndex' = currentImageIndex
                   /\ ~isFrameStarted'
                   /\ \A s \in FrameSlots : cbState'[s] = "recording" => cbState[s] = "recording"
        /\ pc = "bf_return"
                => /\ caller = "beginFrame"
                   /\ result = VK_ERROR_OUT_OF_DATE_KHR
                   /\ callRecreations = 1
                   /\ callAcquires = 1
                   /\ callBegins = 0
                   /\ pc' = "idle"
                   /\ retval' = NULL
                   /\ ~isFrameStarted'
                   /\ cbState' = cbState
                   /\ currentImageIndex' = currentImageIndex
      ]_vars

\* C1 witness: the recreation started by an out-of-date acquisition has returned into beginFrame
C1_Witness == /\ pc = "bf_return"
              /\ caller = "beginFrame"
              /\ result = VK_ERROR_OUT_OF_DATE_KHR
              /\ callRecreations = 1
              /\ LiveSwapchains = {swapchainInstance}

\* C2: currentFrameIndex starts at 0, stays in 0..MAX_FRAMES_IN_FLIGHT-1, advances by one
\* modulo MAX_FRAMES_IN_FLIGHT in the step that completes an endFrame call (after a
\* recreation or not), and is changed by no other step (beginFrame, recreation, render pass).
C2_FrameIndexCycles ==
    /\ currentFrameIndex = 0
    /\ [](currentFrameIndex \in 0..(MAX_FRAMES_IN_FLIGHT - 1))
    /\ [][ IF pc = "ef_finish"
           THEN pc' = "idle" => currentFrameIndex' = (currentFrameIndex + 1) % MAX_FRAMES_IN_FLIGHT
           ELSE currentFrameIndex' = currentFrameIndex
         ]_vars

\* C2 witness: an endFrame that recreated the swapchain is about to complete in the last slot
C2_Witness == /\ pc = "ef_finish"
              /\ caller = "endFrame"
              /\ callRecreations = 1
              /\ currentFrameIndex = MAX_FRAMES_IN_FLIGHT - 1

\* C3: beginFrame called while a frame is open aborts on its assertion and changes nothing
\* else (no acquisition, no state touched); at most one command buffer is ever being recorded.
C3_BeginFrameTwiceFaults ==
    /\ [][ \A r \in VkResults, img \in ImageIndices, beginOk \in BOOLEAN :
             (BeginFrame(r, img, beginOk) /\ isFrameStarted)
                => /\ pc' = "aborted"
                   /\ fault' = "Can't call beginFrame while already in progress"
                   /\ UNCHANGED AbortFrame
         ]_vars
    /\ [](Cardinality(Recording) <= 1)

\* C3 witness: beginFrame has aborted with a frame open
C3_Witness == /\ pc = "aborted"
              /\ fault = "Can't call beginFrame while already in progress"
              /\ isFrameStarted
              /\ Recording = {currentFrameIndex}

\* C4: endFrame called while no frame is open aborts on its assertion before ending the
\* command buffer, submitting, or advancing the frame slot: nothing else changes.
C4_EndFrameWithoutFrameFaults ==
    [][ \A endOk \in BOOLEAN, r \in VkResults :
          (EndFrame(endOk, r) /\ ~isFrameStarted)
             => /\ pc' = "aborted"
                /\ fault' = "Can't call endFrame while frame is not in progress"
                /\ UNCHANGED AbortFrame
      ]_vars

\* C4 witness: endFrame has aborted with no frame open, after an earlier frame was submitted
C4_Witness == /\ pc = "aborted"
              /\ fault = "Can't call endFrame while frame is not in progress"
              /\ ~isFrameStarted
              /\ \E s \in FrameSlots : cbState[s] = "pending"

\* C5: a swapchain is constructed only by recreateSwapchain's construction step, with the
\* extent the window last reported to it, which has width > 0 and height > 0; while the
\* extent last reported is degenerate no swapchain is constructed; every live swapchain has
\* width > 0 and height > 0.
C5_NoDegenerateSwapchain ==
    /\ [][ \A id \in SwapchainIds :
             (~swapchains[id].alive /\ swapchains'[id].alive)
                => /\ pc = "rs_construct"
                   /\ extent[1] > 0 /\ extent[2] > 0
                   /\ swapchains'[id].extent = extent
         ]_vars
    /\ [][ (extent[1] = 0 \/ extent[2] = 0) => \A id \in SwapchainIds : swapchains'[id].alive => swapchains[id].alive ]_vars
    /\ [](\A id \in LiveSwapchains : swapchains[id].extent[1] > 0 /\ swapchains[id].extent[2] > 0)

\* C5 witness: a recreation that waited through a degenerate extent saw a resize event and
\* then constructed its swapchain with 800x600
C5_Witness == /\ pc = "rs_return"
              /\ callEvents
              /\ swapchains[swapchainInstance].extent = <<800, 600>>

\* C6 as claimed: when an endFrame call returns, the swapchain was recreated in that call
\* and the resize flag is clear if the status was out-of-date or suboptimal or the flag was
\* set; and no recreation happened if the status was success and the flag was not set.
C6_FlagClearOnReturn ==
    [][ (pc = "ef_finish" /\ pc' = "idle")
          => IF result = VK_ERROR_OUT_OF_DATE_KHR \/ result = VK_SUBOPTIMAL_KHR \/ callResized
             THEN callRecreations = 1 /\ ~windowResized'
             ELSE callRecreations = 0
      ]_vars

\* C6 amended: if the status is out-of-date or suboptimal or the resize flag is set, endFrame
\* clears the flag and then recreates the swapchain in that call; only a resize event
\* delivered during that recreation sets the flag again before the call returns; with
\* status success and the flag not set no recreation happens and the flag is untouched.
C6_RecreateAndClearFlag ==
    [][ /\ \A r \in VkResults :
             (EndFrame(TRUE, r) /\ isFrameStarted)
                => IF r = VK_ERROR_OUT_OF_DATE_KHR \/ r = VK_SUBOPTIMAL_KHR \/ windowResized
                   THEN pc' = "rs_getExtent" /\ callRecreations' = 1 /\ ~windowResized'
                   ELSE pc' # "rs_getExtent" /\ callRecreations' = 0 /\ ~windowResized'
        /\ (caller = "endFrame" /\ windowResized' # windowResized)
                => pc = "rs_wait" /\ windowResized' /\ callEvents'
        /\ (pc = "ef_finish" /\ pc' = "idle")
                => IF result = VK_ERROR_OUT_OF_DATE_KHR \/ result = VK_SUBOPTIMAL_KHR \/ callResized
                   THEN callRecreations = 1 /\ (windowResized' => callEvents)
                   ELSE callRecreations = 0 /\ result = VK_SUCCESS /\ ~windowResized'
      ]_vars

\* C6 witness: an endFrame whose submission succeeded recreated the swapchain because the
\* resize flag was set, and the flag is clear
C6_Witness == /\ pc = "ef_finish"
              /\ result = VK_SUCCESS
              /\ callResized
              /\ callRecreations = 1
              /\ ~windowResized

\* C7: in endFrame every submission status other than success, suboptimal and out-of-date
\* makes the call throw, whatever the window's resize flag is.
C7_OtherStatusIsFatal ==
    [][ \A r \in VkResults \ {VK_SUCCESS, VK_SUBOPTIMAL_KHR, VK_ERROR_OUT_OF_DATE_KHR} :
          (EndFrame(TRUE, r) /\ isFrameStarted) => pc' = "thrown"
      ]_vars

\* C8: beginSwapchainRenderPass and endSwapchainRenderPass abort unless a frame is open and
\* the buffer passed is the one of the current frame slot, which is the buffer the current
\* beginFrame returned; with that buffer they go through.
C8_RenderPassBufferChecked ==
    /\ [][ \A commandBuffer \in Handles :
             (BeginSwapchainRenderPass(commandBuffer) \/ EndSwapchainRenderPass(commandBuffer))
                => IF isFrameStarted /\ commandBuffer = commandBuffers[currentFrameIndex]
                   THEN pc' = "idle" /\ fault' = "none"
                   ELSE pc' = "aborted" /\ fault' # "none" /\ UNCHANGED AbortFrame
         ]_vars
    /\ []((pc = "idle" /\ isFrameStarted) => (retval = commandBuffers[currentFrameIndex] /\ retval # NULL))
    /\ [](pc = "idle" => \A s, t \in FrameSlots : commandBuffers[s] = commandBuffers[t] => s = t)

\* C8 witness: with a frame open, beginSwapchainRenderPass was given another buffer and aborted
C8_Witness == /\ pc = "aborted"
              /\ fault = "Can't begin render pass on command buffer from a different frame"
              /\ isFrameStarted

\* C9: a recreation that replaces a swapchain goes from the construction to the comparison
\* with the old and the new swapchain both alive, and throws exactly when their colour or
\* depth formats differ; the first construction goes to the return without a comparison.
C9_FormatsCompared ==
    [][ /\ (pc = "rs_construct" /\ swapchainInstance # NULL)
             => /\ pc' = "rs_compare"
                /\ oldSwapchainInstance' = swapchainInstance
                /\ swapchainInstance' # swapchainInstance
                /\ swapchains'[oldSwapchainInstance'].alive
                /\ swapchains'[swapchainInstance'].alive
        /\ (pc = "rs_construct" /\ swapchainInstance = NULL)
             => pc' = "rs_return" /\ fault' = "none"
        /\ pc = "rs_compare"
             => IF \/ swapchains[oldSwapchainInstance].imageFormat # swapchains[swapchainInstance].imageFormat
                   \/ swapchains[oldSwapchainInstance].depthFormat # swapchains[swapchainInstance].depthFormat
                THEN pc' = "thrown" /\ fault' = "swap chain image or depth format has changed!"
                ELSE pc' = "rs_drop" /\ fault' = "none"
        /\ (fault' = "swap chain image or depth format has changed!" /\ fault = "none")
             => pc = "rs_compare"
      ]_vars

\* C9 witness: a recreation has thrown on a format mismatch
C9_Witness == /\ pc = "thrown"
              /\ fault = "swap chain image or depth format has changed!"
              /\ swapchainInstance # NULL

\* C10: constructing a model from fewer than 3 vertices aborts in createVertexBuffers before
\* any buffer is created; every model past that assertion has vertexCount >= 3.
C10_FewerThanThreeVerticesFaults ==
    /\ [][ (mpc = "cvb_count" /\ Len(vertices) < 3)
             => mpc' = "aborted" /\ buffers' = buffers /\ \A id \in BufferIds : buffers[id].buffer = "none"
         ]_vars
    /\ [](mpc = "aborted" => \A id \in BufferIds : buffers[id].buffer = "none")
    /\ [](mpc \notin {"off", "cvb_count", "aborted"} => (vertexCount >= 3 /\ vertexCount = Len(vertices)))
    /\ []((\E id \in BufferIds : buffers[id].buffer # "none") => vertexCount >= 3)

\* C10 witness: the construction from two vertices has aborted and no buffer exists
C10_Witness == /\ mpc = "aborted"
               /\ Len(vertices) = 2
               /\ \A id \in BufferIds : buffers[id].buffer = "none"

\* the commands model::bind records on a command buffer
BindCommands(commandBuffer, indexed) ==
    IF indexed
    THEN <<[cmd |-> "vkCmdBindVertexBuffers", commandBuffer |-> commandBuffer, buffer |-> vertexBuffer, count |-> 1],
           [cmd |-> "vkCmdBindIndexBuffer", commandBuffer |-> commandBuffer, buffer |-> indexBuffer, count |-> 1]>>
    ELSE <<[cmd |-> "vkCmdBindVertexBuffers", commandBuffer |-> commandBuffer, buffer |-> vertexBuffer, count |-> 1]>>

\* the buffers of the device that were created for use as an index buffer
IndexUsageBuffers == {id \in BufferIds : buffers[id].buffer # "none" /\ "INDEX_BUFFER" \in buffers[id].usage}

\* the constructor of the model has returned
Constructed == mpc \in {"live", "destroyed"}

\* C11: once the constructor has run createIndexBuffer, hasIndexBuffer is true exactly when
\* the builder holds at least one index, and no later step changes it; bind adds an index
\* buffer binding and draw issues an indexed draw over all indexCount indices exactly when
\* the builder held indices, otherwise draw is a plain draw over all vertexCount vertices
\* and no index buffer is ever created, bound or destroyed
C11_IndexBufferIffIndices ==
    /\ [](Constructed => /\ hasIndexBuffer = (Len(indices) > 0)
                         /\ indexCount = Len(indices)
                         /\ vertexCount = Len(vertices))
    /\ [][Constructed => hasIndexBuffer' = hasIndexBuffer]_vars
    /\ [][\A commandBuffer \in CommandBufferHandles :
            /\ bind(commandBuffer) => commands' = BindCommands(commandBuffer, Len(indices) > 0)
            /\ draw(commandBuffer) =>
                  commands' = IF Len(indices) > 0
                              THEN <<[cmd |-> "vkCmdDrawIndexed", commandBuffer |-> commandBuffer,
                                      buffer |-> NULL, count |-> Len(indices)]>>
                              ELSE <<[cmd |-> "vkCmdDraw", commandBuffer |-> commandBuffer,
                                      buffer |-> NULL, count |-> Len(vertices)]>>]_vars
    /\ []((Len(indices) = 0 /\ mpc # "off") => IndexUsageBuffers = {} /\ indexBuffer = NULL)
    /\ []((Len(indices) = 0 /\ Constructed) => Cardinality({id \in BufferIds : buffers[id].buffer # "none"}) = 2)
    /\ []((Len(indices) > 0 /\ Constructed) => IndexUsageBuffers = {indexBuffer})
    /\ [][DestroyModel =>
            \A id \in BufferIds :
               buffers'[id] # buffers[id] => id = vertexBuffer \/ (Len(indices) > 0 /\ id = indexBuffer)]_vars

\* a model built from a single index has bound its index buffer
C11_Witness == /\ mpc = "live"
               /\ Len(indices) = 1
               /\ hasIndexBuffer
               /\ Len(commands) = 2
               /\ commands[2].cmd = "vkCmdBindIndexBuffer"

\* the index triples of all shapes, in the order the two loops visit them
RECURSIVE MeshIndices(_)
MeshIndices(sh) == IF Len(sh) = 0 THEN <<>> ELSE Head(sh) \o MeshIndices(Tail(sh))

\* the number of index triples the loops of the call in progress have finished
Consumed == Len(MeshIndices(SubSeq(shapes, 1, shapeIt - 1)))
            + (IF lpc \in {"ld_index", "ld_vertex", "ld_dedup"} THEN indexIt - 1 ELSE 0)

\* loadModel is inside its loops, between two steps
InLoops == lpc \in {"ld_shape", "ld_index", "ld_vertex", "ld_dedup"}

\* the loops of loadModel have visited every index and the call is about to return
LoopsDone == lpc = "ld_shape" /\ shapeIt > Len(shapes)

IndicesInRange == \A k \in 1..Len(indices) : indices[k] >= 0 /\ indices[k] < Len(vertices)

\* same position, color, normal and uv
StructurallyEqual(a, b) ==
    /\ \A k \in 1..3 : FloatEq(a.position[k], b.position[k]) /\ FloatEq(a.color[k], b.color[k]) /\ FloatEq(a.normal[k], b.normal[k])
    /\ \A k \in 1..2 : FloatEq(a.uv[k], b.uv[k])

\* C12: at every step of the loops of loadModel and after every loadModel that returned,
\* every index of the builder is below the number of its vertices, and the builder holds one
\* index per index triple visited, in the order of the file: the k-th index is the one
\* emitted for the k-th triple and names a Vertex equal to the one synthesized from it
C12_IndicesInRangeInOrder ==
    /\ InLoops =>
          /\ IndicesInRange
          /\ Len(indices) = Consumed
          /\ Len(synthesized) = Consumed + (IF lpc = "ld_dedup" THEN 1 ELSE 0)
          /\ \A k \in 1..Len(synthesized) : synthesized[k] \in SynthVertices(attrib, MeshIndices(shapes)[k])
          /\ \A k \in 1..Len(indices) :
                StructurallyEqual(synthesized[k], synthesized[k]) => StructurallyEqual(vertices[indices[k] + 1], synthesized[k])
    /\ LoopsDone => Len(indices) = Len(MeshIndices(file.shapes))
    /\ (lpc = "l_idle" /\ loadOutcome = "returned") =>
          /\ IndicesInRange
          /\ Len(indices) = Len(MeshIndices(file.shapes))

\* a load of three index triples returned, the second and third index naming other vertices
\* than the first
C12_Witness == /\ lpc = "l_idle"
               /\ loadOutcome = "returned"
               /\ Len(file.shapes) = 2
               /\ Len(indices) = 3
               /\ indices = <<0, 1, 0>>
               /\ Len(vertices) = 2

\* C13: index triples that synthesize structurally equal Vertex values get the same index,
\* that index is the position at which the first of them was appended (the builder holds
\* the first occurrence itself, and no equal Vertex before it), and no two vertices of the
\* builder are structurally equal; this holds after every step of the loops
C13_EqualVerticesShareFirstIndex ==
    InLoops =>
      /\ \A j, k \in 1..Len(indices) :
            StructurallyEqual(synthesized[j], synthesized[k]) =>
              /\ indices[j] = indices[k]
              /\ LET first == CHOOSE f \in 1..k : /\ StructurallyEqual(synthesized[f], synthesized[k])
                                                   /\ \A g \in 1..(f - 1) : ~StructurallyEqual(synthesized[g], synthesized[k])
                 IN /\ vertices[indices[k] + 1] = synthesized[first]
                    /\ indices[k] = Cardinality({g \in 1..(first - 1) :
                                        \A h \in 1..(g - 1) : ~StructurallyEqual(synthesized[h], synthesized[g])})
      /\ \A p, q \in 1..Len(vertices) : p # q => ~StructurallyEqual(vertices[p], vertices[q])

\* two different index triples synthesized equal vertices after another Vertex, and both got
\* the position of the first of the two
C13_Witness == /\ LoopsDone
               /\ Len(indices) = 3
               /\ indices = <<0, 1, 1>>
               /\ MeshIndices(shapes)[2] # MeshIndices(shapes)[3]
               /\ StructurallyEqual(synthesized[2], synthesized[3])
               /\ synthesized[2] # synthesized[3]

\* C14: a loadModel that returns leaves in the builder what the first loadModel of the same
\* mesh file left there, whatever the builder held when it was called
C14_SameMeshSameResult ==
    (lpc = "l_idle" /\ loadOutcome = "returned") =>
       /\ firstLoad.loaded
       /\ vertices = firstLoad.vertices
       /\ indices = firstLoad.indices

\* s is an initial part of t
IsPrefix(s, t) == Len(s) <= Len(t) /\ s = SubSeq(t, 1, Len(s))

\* C15 (as stated): a recreation first waits for the device to be idle, then polls the window
\* extent, then constructs the new swapchain, then drops the old one
C15_IdleThenPollThenConstruct ==
    IsPrefix(recreateSteps, <<"idle", "poll", "construct", "drop">>)

\* C15 (amended): a recreation first polls the window extent (blocking on events while it is
\* degenerate), then waits for the device to be idle, then constructs the new swapchain, then
\* drops the old one if there was one; it returns only after all of these
C15_PollThenIdleThenConstruct ==
    /\ IsPrefix(recreateSteps, <<"poll", "idle", "construct", "drop">>)
    /\ pc = "rs_waitIdle" => recreateSteps = <<"poll">>
    /\ pc = "rs_construct" => recreateSteps = <<"poll", "idle">>
    /\ pc = "rs_return" => recreateSteps = IF caller = "ctor" THEN <<"poll", "idle", "construct">>
                                           ELSE <<"poll", "idle", "construct", "drop">>

\* a recreation that blocked on window events has replaced a swapchain and is about to return
C15_Witness == /\ pc = "rs_return"
               /\ caller = "endFrame"
               /\ callEvents
               /\ recreateSteps = <<"poll", "idle", "construct", "drop">>

\* the constructor of the renderer has returned
ConstructorReturned == pc # "off" /\ caller # "ctor"

StagingBuffers == {id \in BufferIds : buffers[id].buffer # "none" /\ "TRANSFER_SRC" \in buffers[id].usage}

\* the constructor is inside createIndexBuffer
InCreateIndexBuffer == mpc \in {"cib_count", "cib_staging", "cib_map", "cib_memcpy", "cib_unmap", "cib_device",
                                "cib_copy", "cib_destroy", "cib_free"}

\* the device-local buffer the upload in progress fills
UploadTarget == IF InCreateIndexBuffer THEN indexBuffer ELSE vertexBuffer

\* the data the upload in progress writes
UploadData == IF InCreateIndexBuffer THEN indices ELSE vertices

\* how far the upload in progress has come, read from the state of its buffers:
\* 0 no staging buffer, 1 staging created, 2 mapped, 3 data written, 4 unmapped,
\* 5 device-local buffer of the same size created, 6 copy done, 7 staging buffer destroyed
UploadStage ==
    IF stagingBuffer = NULL THEN 0
    ELSE LET s == buffers[stagingBuffer]
             hasTarget == UploadTarget # NULL /\ buffers[UploadTarget].buffer = "created"
                          /\ buffers[UploadTarget].size = s.size
         IN IF s.buffer = "destroyed" /\ s.memory = "allocated" /\ hasTarget
               /\ buffers[UploadTarget].contents = UploadData THEN 7
            ELSE IF s.buffer # "created" \/ s.memory # "allocated" THEN -1
            ELSE IF hasTarget /\ ~s.mapped /\ s.contents = UploadData
                    /\ buffers[UploadTarget].contents = UploadData THEN 6
            ELSE IF hasTarget /\ ~s.mapped /\ s.contents = UploadData
                    /\ buffers[UploadTarget].contents = <<>> THEN 5
            ELSE IF hasTarget THEN -1
            ELSE IF ~s.mapped /\ s.contents = UploadData THEN 4
            ELSE IF s.mapped /\ s.contents = UploadData THEN 3
            ELSE IF s.mapped /\ s.contents = <<>> THEN 2
            ELSE IF ~s.mapped /\ s.contents = <<>> THEN 1
            ELSE -1

\* C17: in createVertexBuffers and in createIndexBuffer every step that touches a buffer
\* takes the upload exactly one stage further, in the order: staging created, mapped, data
\* written, unmapped, device-local buffer of the same size created, copied, staging buffer
\* destroyed, staging memory freed; a buffer is destroyed and its memory freed at most once,
\* and when the constructor has returned every staging buffer created has been destroyed and
\* its memory freed
C17_StagingStepsInOrder ==
    /\ [](UploadStage >= 0)
    /\ [][(buffers' # buffers /\ mpc # "live") =>
            IF UploadStage = 7
            THEN /\ UploadStage' = 0
                 /\ \E id \in BufferIds : /\ id = stagingBuffer
                                           /\ buffers'[id].buffer = "destroyed"
                                           /\ buffers[id].memory = "allocated"
                                           /\ buffers'[id].memory = "freed"
            ELSE UploadStage' = UploadStage + 1]_vars
    /\ [][\A id \in BufferIds :
            /\ (buffers'[id].buffer # buffers[id].buffer) =>
                  \/ buffers[id].buffer = "none" /\ buffers'[id].buffer = "created"
                  \/ buffers[id].buffer = "created" /\ buffers'[id].buffer = "destroyed"
            /\ (buffers'[id].memory # buffers[id].memory) =>
                  \/ buffers[id].memory = "none" /\ buffers'[id].memory = "allocated"
                  \/ buffers[id].memory = "allocated" /\ buffers'[id].memory = "freed"]_vars
    /\ [](Constructed =>
            /\ stagingBuffer = NULL
            /\ Cardinality(StagingBuffers) = IF Len(indices) > 0 THEN 2 ELSE 1
            /\ \A id \in StagingBuffers : buffers[id].buffer = "destroyed" /\ buffers[id].memory = "freed"
            /\ buffers[vertexBuffer].contents = vertices
            /\ Len(indices) > 0 => buffers[indexBuffer].contents = indices)

\* the constructor has returned after uploading vertices and indices through two staging
\* buffers, both released
C17_Witness == /\ mpc = "live"
               /\ Cardinality(StagingBuffers) = 2
               /\ \A id \in StagingBuffers : buffers[id].buffer = "destroyed" /\ buffers[id].memory = "freed"
               /\ buffers[indexBuffer].contents = indices
               /\ Len(indices) = 2

\* C18: recreateSwapchain blocks on window events only while the extent it has read is
\* degenerate: once it has read a non-degenerate extent it needs no further window event
C18_BlocksOnlyWhileDegenerate == pc = "rs_wait" => ExtentIsDegenerate(extent)

\* the positions inside recreateSwapchain
RecreationPcs == {"rs_getExtent", "rs_loop", "rs_loopGet", "rs_wait", "rs_waitIdle", "rs_construct",
                  "rs_compare", "rs_drop", "rs_return"}

\* C19: no resize request is lost. The resize flag is cleared only by an endFrame that goes on
\* to recreate the swapchain, and it is cleared before that recreation starts; a resize
\* delivered while a recreation waits for events leaves the flag set; and an endFrame that
\* finds the flag set and gets past its submission recreates the swapchain in that call
C19_NoResizeLost ==
    /\ [][(windowResized /\ ~windowResized') =>
            /\ pc = "idle"
            /\ isFrameStarted
            /\ caller' = "endFrame"
            /\ pc' = "rs_getExtent"
            /\ recreateSteps' = <<>>
            /\ callRecreations' = 1]_vars
    /\ [][\A r \in VkResults :
            (EndFrame(TRUE, r) /\ isFrameStarted /\ windowResized) => (pc' = "rs_getExtent" /\ ~windowResized')]_vars
    /\ [][(pc \in RecreationPcs /\ windowResized) => windowResized']_vars
    /\ [][(pc = "rs_wait" /\ windowExtent' # windowExtent) => windowResized']_vars
    /\ []((pc = "ef_finish" /\ callResized) => callRecreations = 1)
    /\ []((pc \in RecreationPcs /\ caller = "endFrame" /\ windowResized) => callEvents)

\* endFrame found the flag set, cleared it and started a recreation; a resize delivered
\* while that recreation waited has set the flag again, and the recreation is about to return
C19_Witness == /\ pc = "rs_return"
               /\ caller = "endFrame"
               /\ callResized
               /\ result = VK_SUCCESS
               /\ callEvents
               /\ windowResized

\* a frame is open for the caller: beginFrame has returned a command buffer and the matching
\* endFrame has not been called yet
FrameOpen == pc = "idle" /\ isFrameStarted

\* C20: while a frame is open for the caller no step but the call of endFrame replaces or
\* changes the swapchain or changes currentImageIndex or currentFrameIndex; the frame was
\* opened by a beginFrame that stored the image index it acquired and returned the command
\* buffer of the current frame slot; beginSwapchainRenderPass uses the framebuffer of that
\* image index of the current swapchain; and endFrame ends and submits that command buffer
C20_OpenFrameIsStable ==
    /\ [][(FrameOpen /\ ~(\E endOk \in BOOLEAN, r \in VkResults : EndFrame(endOk, r))) =>
            UNCHANGED <<swapchainInstance, swapchains, currentImageIndex, currentFrameIndex, commandBuffers, retval>>]_vars
    /\ [][\A r \in VkResults, img \in ImageIndices, beginOk \in BOOLEAN :
            (BeginFrame(r, img, beginOk) /\ FrameOpen') =>
               /\ currentImageIndex' = img
               /\ retval' = commandBuffers[currentFrameIndex]
               /\ UNCHANGED <<swapchainInstance, swapchains, currentFrameIndex>>]_vars
    /\ [](FrameOpen => /\ retval = commandBuffers[currentFrameIndex]
                       /\ retval # NULL
                       /\ cbState[currentFrameIndex] = "recording"
                       /\ Cardinality(LiveSwapchains) = 1
                       /\ swapchains[swapchainInstance].alive)
    /\ [][\A commandBuffer \in Handles :
            (BeginSwapchainRenderPass(commandBuffer) /\ pc' = "idle") =>
               /\ commandBuffer = retval
               /\ renderPass'.commandBuffer = retval
               /\ renderPass'.swapchain = swapchainInstance
               /\ renderPass'.framebuffer = currentImageIndex
               /\ renderPass'.extent = swapchains[swapchainInstance].extent]_vars
    /\ [][\A r \in VkResults :
            (EndFrame(TRUE, r) /\ isFrameStarted) =>
               /\ commandBuffers[currentFrameIndex] = retval
               /\ cbState[currentFrameIndex] = "recording"
               /\ cbState' = [cbState EXCEPT ![currentFrameIndex] = "pending"]]_vars

\* a render pass is open on the image acquired for the open frame, whose index differs from
\* the frame slot, and a resize signalled since then has not replaced the swapchain
C20_Witness == /\ FrameOpen
               /\ renderPass.active
               /\ renderPass.framebuffer = currentImageIndex
               /\ renderPass.swapchain = swapchainInstance
               /\ currentImageIndex # currentFrameIndex
               /\ windowResized

\* C21: a call of loadModel whose file cannot be parsed throws, and from its entry to the throw
\* the builder's vertices and indices stay as they were; the builder is changed inside a call
\* only after the parse step, and only when the parse succeeded
C21_FailedParseKeepsBuilder ==
    [][/\ (lpc = "l_idle" /\ lpc' = "ld_parse" => UNCHANGED <<vertices, indices>>)
       /\ (lpc = "ld_parse" /\ filepath # MeshPath =>
              /\ loadOutcome' = "thrown"
              /\ lpc' = "l_idle"
              /\ UNCHANGED <<vertices, indices>>)
       /\ (lpc = "ld_parse" /\ filepath = MeshPath =>
              /\ loadOutcome' # "thrown"
              /\ UNCHANGED <<vertices, indices>>)
       /\ (lpc # "l_idle" /\ <<vertices, indices>>' # <<vertices, indices>> =>
              /\ lpc # "ld_parse"
              /\ filepath = MeshPath)]_vars

\* a load of an unparsable path has just thrown on a builder that still holds the two or more
\* vertices of an earlier successful load
C21_Witness == /\ lpc = "l_idle"
               /\ loadOutcome = "thrown"
               /\ firstLoad.loaded
               /\ Len(vertices) >= 2
               /\ vertices = firstLoad.vertices
               /\ indices = firstLoad.indices

====
